---- MODULE Spec2Model ----
(***************************************************************************)
(* Model of the Amber Radiance 1 camera client (src/index.js): the packet  *)
(* codec (createPacket / parsePacket), the stream reassembler              *)
(* (Camera.receive) and the request correlator (Camera.send, built on      *)
(* events.once with an AbortSignal.timeout deadline).                      *)
(*                                                                         *)
(* Buffers are sequences of bytes (0..255); byte i of a JavaScript Buffer  *)
(* is element i + 1 of the sequence.                                       *)
(***************************************************************************)
EXTENDS Integers, Sequences, FiniteSets, TLC

\* ---------------------------------------------------------------- bounds
\* Number of Camera.send calls in one behaviour.
MaxSends == 2
\* Number of packets the device writes unprompted in one behaviour of the
\* reassembler alone.
MaxUnsolicited == 2
\* Number of responses the device repeats in one behaviour.
MaxDuplicates == 1
\* Number of Camera.send calls a caller makes in a row without awaiting.
MaxBurst == 257
\* Number of sends whose responses arrive in chunks of every size.
MaxFragmented == 1
\* Number of calls of the named methods of Camera in one behaviour.
MaxCalls == 1

\* ------------------------------------------------------------- constants
Byte == 0 .. 255

\* A payload that parsePacket reports as `undefined` (dataSize = 0) is kept
\* apart from a payload that is a buffer.
Undefined == [defined |-> FALSE, bytes |-> <<>>]
Defined(b) == [defined |-> TRUE, bytes |-> b]

\* Uint8Array element assignment: the value is stored modulo 256.
ToUint8(x) == x % 256

\* STD_HEADER with bytes 3, 4, 5 still zero.
STD_HEADER == <<3, 0, 1, 0, 0, 0, 255, 255>>
STD_FOOTER == <<0, 2, 0, 0>>

\* A writer that puts the high byte first (writeUInt16BE).
UInt16BE(w) == <<(w \div 256) % 256, w % 256>>

\* Buffer.writeUInt16LE of one word.
UInt16LE(w) == <<w % 256, (w \div 256) % 256>>

\* Buffer.readUInt16LE(offset).
ReadUInt16LE(buff, offset) == buff[offset + 1] + 256 * buff[offset + 2]

RECURSIVE WordsLE(_)
WordsLE(data) ==
    IF data = <<>> THEN <<>> ELSE UInt16LE(Head(data)) \o WordsLE(Tail(data))

\* footer[0] += msg[i] over a Uint8 cell: the running sum wraps at 256.
RECURSIVE SumUint8(_, _)
SumUint8(msg, n) ==
    IF n = 0 THEN 0 ELSE ToUint8(SumUint8(msg, n - 1) + msg[n])

\* The plain (unwrapped) sum parsePacket accumulates in `expected`.
RECURSIVE SumFirst(_, _)
SumFirst(buff, n) ==
    IF n = 0 THEN 0 ELSE SumFirst(buff, n - 1) + buff[n]

\* An encoder whose checksum covers the 10 bytes of header and length only,
\* as the layout comment on the standard 14-byte packet has it.
createPacketHeaderChecksum(messageNumber, command, subCommand, data) ==
    LET header == [STD_HEADER EXCEPT ![4] = ToUint8(command),
                                     ![5] = ToUint8(subCommand),
                                     ![6] = ToUint8(messageNumber)]
        dataBlock == IF Len(data) > 0
                     THEN UInt16LE(Len(data) * 2) \o WordsLE(data)
                     ELSE <<0, 0>>
        msg == header \o dataBlock
        footer == [STD_FOOTER EXCEPT ![1] = SumUint8(msg, 10)]
    IN msg \o footer

\* createPacket(messageNumber, command, subCommand, ...data)
createPacket(messageNumber, command, subCommand, data) ==
    LET header == [STD_HEADER EXCEPT ![4] = ToUint8(command),
                                     ![5] = ToUint8(subCommand),
                                     ![6] = ToUint8(messageNumber)]
        dataBlock == IF Len(data) > 0
                     THEN UInt16LE(Len(data) * 2) \o WordsLE(data)
                     ELSE <<0, 0>>
        msg == header \o dataBlock
        footer == [STD_FOOTER EXCEPT ![1] = SumUint8(msg, Len(msg))]
    IN msg \o footer

\* A decoder that sums the 10 header bytes only, as the layout comment on
\* the standard 14-byte packet has it.
parsePacketHeaderSum(buff, dataSize) ==
    LET expected == SumFirst(buff, 10)
    IN IF buff[10 + dataSize + 1] # expected % 256
       THEN [ok |-> FALSE, messageID |-> 0, response |-> Undefined]
       ELSE [ok |-> TRUE,
             messageID |-> buff[6],
             response |-> IF dataSize # 0
                          THEN Defined(SubSeq(buff, 11, 10 + dataSize))
                          ELSE Undefined]

\* parsePacket(buff, dataSize): ok = FALSE stands for the thrown
\* "Incorrect checksum" error.
parsePacket(buff, dataSize) ==
    LET expected == SumFirst(buff, 10 + dataSize)
    IN IF buff[10 + dataSize + 1] # expected % 256
       THEN [ok |-> FALSE, messageID |-> 0, response |-> Undefined]
       ELSE [ok |-> TRUE,
             messageID |-> buff[6],
             response |-> IF dataSize # 0
                          THEN Defined(SubSeq(buff, 11, 10 + dataSize))
                          ELSE Undefined]

\* A reassembler that looks at each chunk alone and keeps nothing of the
\* chunks before it.
receiveChunkOnly(buffer, data) ==
    LET buf == data
        idle == [buffer |-> buf, extracted |-> <<>>, threw |-> FALSE,
                 emitted |-> <<>>]
    IN IF Len(buf) >= 14
       THEN LET dataSize == ReadUInt16LE(buf, 8)
                packetSize == 14 + dataSize
            IN IF Len(buf) >= packetSize
               THEN LET packet == SubSeq(buf, 1, packetSize)
                        parsed == parsePacket(packet, dataSize)
                    IN [buffer |-> SubSeq(buf, packetSize + 1, Len(buf)),
                        extracted |-> <<packet>>,
                        threw |-> ~parsed.ok,
                        emitted |-> IF parsed.ok
                                    THEN <<[messageID |-> parsed.messageID,
                                            response |-> parsed.response]>>
                                    ELSE <<>>]
               ELSE idle
       ELSE idle

\* A reassembler that takes the 14 bytes of a packet without payload off the
\* buffer as soon as they are there, whatever length the packet declares.
receiveFixedSize(buffer, data) ==
    LET buf == buffer \o data
        idle == [buffer |-> buf, extracted |-> <<>>, threw |-> FALSE,
                 emitted |-> <<>>]
    IN IF Len(buf) >= 14
       THEN LET packet == SubSeq(buf, 1, 14)
                parsed == parsePacket(packet, 0)
            IN [buffer |-> SubSeq(buf, 15, Len(buf)),
                extracted |-> <<packet>>,
                threw |-> ~parsed.ok,
                emitted |-> IF parsed.ok
                            THEN <<[messageID |-> parsed.messageID,
                                    response |-> parsed.response]>>
                            ELSE <<>>]
       ELSE idle

\* A reassembler that empties its buffer when a packet fails its checksum.
receiveDiscardOnError(buffer, data) ==
    LET buf == buffer \o data
        idle == [buffer |-> buf, extracted |-> <<>>, threw |-> FALSE,
                 emitted |-> <<>>]
    IN IF Len(buf) >= 14
       THEN LET dataSize == ReadUInt16LE(buf, 8)
                packetSize == 14 + dataSize
            IN IF Len(buf) >= packetSize
               THEN LET packet == SubSeq(buf, 1, packetSize)
                        parsed == parsePacket(packet, dataSize)
                    IN [buffer |-> IF parsed.ok
                                   THEN SubSeq(buf, packetSize + 1, Len(buf))
                                   ELSE <<>>,
                        extracted |-> <<packet>>,
                        threw |-> ~parsed.ok,
                        emitted |-> IF parsed.ok
                                    THEN <<[messageID |-> parsed.messageID,
                                            response |-> parsed.response]>>
                                    ELSE <<>>]
               ELSE idle
       ELSE idle

\* Camera.receive(data) as a function of the buffer: the new buffer, the
\* packets sliced out of it (at most one: the body is an `if`, not a loop),
\* whether parsePacket threw, and the confirm events emitted.
receive(buffer, data) ==
    LET buf == buffer \o data
        idle == [buffer |-> buf, extracted |-> <<>>, threw |-> FALSE,
                 emitted |-> <<>>]
    IN IF Len(buf) >= 14
       THEN LET dataSize == ReadUInt16LE(buf, 8)
                packetSize == 14 + dataSize
            IN IF Len(buf) >= packetSize
               THEN LET packet == SubSeq(buf, 1, packetSize)
                        parsed == parsePacket(packet, dataSize)
                    IN [buffer |-> SubSeq(buf, packetSize + 1, Len(buf)),
                        extracted |-> <<packet>>,
                        threw |-> ~parsed.ok,
                        emitted |-> IF parsed.ok
                                    THEN <<[messageID |-> parsed.messageID,
                                            response |-> parsed.response]>>
                                    ELSE <<>>]
               ELSE idle
       ELSE idle

\* The response the device writes for a request (MockCamera.respond): header
\* 3, 0, 1, function, subfunction, messageID, 0, 0, one length byte and a
\* zero, the payload, the checksum and three zero bytes.
respond(functionCode, subFunctionCode, messageID, response) ==
    LET dataBytes == Len(response)
        checkSum == (3 + 1 + functionCode + subFunctionCode + messageID
                     + dataBytes + SumFirst(response, Len(response))) % 256
    IN <<3>> \o <<0, 1>> \o <<functionCode, subFunctionCode>>
       \o <<messageID, 0, 0>> \o <<dataBytes, 0>> \o response
       \o <<checkSum, 0>> \o <<0, 0>>

\* --------------------------------------------------------------- options
\* Command and subcommand of the functions the named methods send.
FUNCTIONS ==
    [AGC_OFF |-> <<1, 0>>, AGC_ON |-> <<1, 1>>, AGC_GET |-> <<1, 2>>,
     AGC_SET |-> <<1, 3>>, FREEZE_FRAME |-> <<4, 1>>,
     LUT_SET |-> <<5, 1>>, LUT_GET |-> <<5, 2>>,
     ITT_SET |-> <<5, 4>>, ITT_GET |-> <<5, 5>>,
     CALIBRATE_1_POINT |-> <<7, 1>>, CALIBRATE_2_POINT |-> <<7, 2>>,
     NUC_SET |-> <<7, 5>>, NUC_GET |-> <<7, 6>>]

\* The mode maps, as the sequences of <<key, value>> in which the object
\* literals list them (Object.keys keeps that order).
AGC_MODES ==
    <<<<"off", -1>>, <<"full", 0>>, <<"midsize", 1>>, <<"center", 2>>,
      <<"horizon", 3>>>>
ITT_MODES ==
    <<<<"linear", 1>>, <<"inverse", 2>>, <<"s-curve", 3>>, <<"two-cycle", 4>>>>
NUC_MODES == <<<<"cold", 1>>, <<"mid", 2>>, <<"warm", 3>>, <<"hot", 4>>>>
LUT_MODES == <<<<"black-and-white", 1>>, <<"color", 2>>, <<"sepia", 3>>>>

\* Object.keys(obj), `key in obj` and obj[key] for a key that is there.
Keys(obj) == [i \in 1 .. Len(obj) |-> obj[i][1]]
Has(obj, key) == \E i \in 1 .. Len(obj) : obj[i][1] = key
Get(obj, key) == obj[CHOOSE i \in 1 .. Len(obj) : obj[i][1] = key][2]

\* An inversion that files every key under its position in the map.
invertMapByPosition(obj) == [i \in 1 .. Len(obj) |-> <<i - 1, obj[i][1]>>]

\* invertMap(obj): every value becomes a key for the key it was under.
invertMap(obj) == [i \in 1 .. Len(obj) |-> <<obj[i][2], obj[i][1]>>]

ITT_MAP == invertMap(ITT_MODES)
NUC_MAP == invertMap(NUC_MODES)
LUT_MAP == invertMap(LUT_MODES)

\* What reading a property gives: the name filed under the key, or undefined.
JsUndefined == [defined |-> FALSE, name |-> ""]
Name(s) == [defined |-> TRUE, name |-> s]
Lookup(map, key) == IF Has(map, key) THEN Name(Get(map, key)) ELSE JsUndefined

\* The number writeUInt16LE stores for an argument that is a mode name or
\* undefined: it stores +value, which is NaN for a name that is not numeric
\* and for undefined, and NaN becomes 0 in both bytes.
NumberOf(v) == 0

\* A validation that lets every option through.
validateUnchecked(option, options) ==
    [ok |-> TRUE,
     value |-> IF Has(options, option) THEN Get(options, option) ELSE 0,
     available |-> <<>>]

\* validate(option, options): the value of a known option; for any other it
\* throws an error whose message names the option and lists Object.keys.
validate(option, options) ==
    IF Has(options, option)
    THEN [ok |-> TRUE, value |-> Get(options, option), available |-> <<>>]
    ELSE [ok |-> FALSE, value |-> 0, available |-> Keys(options)]

\* ----------------------------------------------------------------- state
VARIABLES
    messageNumber,  \* Camera.messageNumber
    receiveBuffer,  \* Camera.receiveBuffer
    listeners,      \* n is here while a once('confirm/n') listener is registered
    timers,         \* n is here until the AbortSignal.timeout made by send n fires
    calls,          \* n |-> the packet written by the send registered under n
    result,         \* n |-> how the promise of the send registered under n stands
    transportOut,   \* packets handed to controller.send, in order
    wire,           \* writes of the device not yet delivered as 'data' events
    answered,       \* positions in transportOut of the requests the device answered
    unsolicited,    \* number of packets the device wrote unprompted
    lastReceive,    \* what the latest call of Camera.receive was given and did
    codec,          \* input and outcome of a stand-alone codec call
    api             \* calls of the named methods of Camera and where they stand

vars == <<messageNumber, receiveBuffer, listeners, timers, calls, result,
          transportOut, wire, answered, unsolicited, lastReceive, codec, api>>

\* Requests the callers make: toggleFreezeFrame() and the send of getNUC().
Requests == {<<4, 1, <<>>>>, <<7, 6, <<>>>>}

\* Payloads the device answers with (MockCamera.receive): the NUC mode as one
\* 16-bit word for NUC_GET (cold or hot here), none for FREEZE_FRAME.
PayloadsFor(functionCode, subFunctionCode) ==
    IF functionCode = 7 /\ subFunctionCode = 6
    THEN {<<1, 0>>, <<4, 0>>}
    ELSE {<<>>}

Payloads == {<<>>, <<1, 0>>, <<4, 0>>}

\* Values of Camera.messageNumber at which behaviours start: 1 is the value
\* the constructor sets; 255 is the value after 254 sends that were all
\* answered, which leaves every other field as the constructor set it.
StartNumbers == {1, 255}

PendingResult == [kind |-> "pending", value |-> Undefined]
Resolved(v) == [kind |-> "resolved", value |-> v]
RejectedTimeout == [kind |-> "timeout", value |-> Undefined]

NoReceive == [chunk |-> <<>>, before |-> <<>>, threw |-> FALSE,
              emitted |-> <<>>]

IdleCodec == [stage |-> "idle", number |-> 0, request |-> <<0, 0, <<>>>>,
              original |-> <<>>, packet |-> <<>>, dataSize |-> 0, at |-> 0,
              parsed |-> parsePacket(createPacket(0, 0, 0, <<>>), 0)]

\* No named method was called yet.
NoError == [method |-> "", option |-> "", available |-> <<>>]
IdleApi == [closed |-> FALSE, count |-> 0, op |-> <<>>, thrown |-> NoError]

Init ==
    /\ messageNumber \in StartNumbers
    /\ receiveBuffer = <<>>
    /\ listeners = {}
    /\ timers = {}
    /\ calls = <<>>
    /\ result = <<>>
    /\ transportOut = <<>>
    /\ wire = <<>>
    /\ answered = {}
    /\ unsolicited = 0
    /\ lastReceive = NoReceive
    /\ codec = IdleCodec
    /\ api = IdleApi

\* ---------------------------------------------------------------- helpers
RECURSIVE Flatten(_)
Flatten(ws) == IF ws = <<>> THEN <<>> ELSE Head(ws) \o Flatten(Tail(ws))

\* The writes left on the transport once its first n bytes were delivered.
RECURSIVE DropBytes(_, _)
DropBytes(ws, n) ==
    IF n = 0 \/ ws = <<>> THEN ws
    ELSE IF n >= Len(Head(ws)) THEN DropBytes(Tail(ws), n - Len(Head(ws)))
    ELSE <<SubSeq(Head(ws), n + 1, Len(Head(ws)))>> \o Tail(ws)

\* Settling a promise: only a pending promise changes.
Settle(res, k, outcome) ==
    IF res[k].kind = "pending" THEN [res EXCEPT ![k] = outcome] ELSE res

\* A correlator that hands a response to the oldest waiting send, whatever
\* number the response carries.
EmitConfirmOldest(ls, res, name, response) ==
    IF ls # {}
    THEN LET oldest == CHOOSE k \in ls : \A j \in ls : k <= j
         IN [listeners |-> ls \ {oldest},
             result |-> [res EXCEPT ![oldest] = Resolved(response)]]
    ELSE [listeners |-> ls, result |-> res]

\* EventEmitter.emit('confirm/' + messageID, response): the once() listener
\* registered under that name, if any, is removed and its promise resolved
\* with the event's argument.
EmitConfirm(ls, res, name, response) ==
    IF name \in ls
    THEN [listeners |-> ls \ {name},
          result |-> Settle(res, name, Resolved(response))]
    ELSE [listeners |-> ls, result |-> res]

\* A deadline that stays attached to the signal after the response came: its
\* expiry turns the outcome of the send into a timeout whenever it fires.
AbortConfirmLate(ls, res, name) ==
    [listeners |-> ls \ {name},
     result |-> [res EXCEPT ![name] = RejectedTimeout]]

\* A deadline that leaves the listener of the timed-out send registered.
AbortConfirmKeepListener(ls, res, name) ==
    IF name \in ls
    THEN [listeners |-> ls, result |-> Settle(res, name, RejectedTimeout)]
    ELSE [listeners |-> ls, result |-> res]

\* A deadline shared by the sends: when it expires every waiting send fails.
AbortConfirmAll(ls, res, name) ==
    IF name \in ls
    THEN [listeners |-> {},
          result |-> [k \in DOMAIN res |->
                        IF k \in ls THEN RejectedTimeout ELSE res[k]]]
    ELSE [listeners |-> ls, result |-> res]

\* The abort signal of once('confirm/' + name) fires: while the listener is
\* registered once() removes it and rejects, and send rethrows the cause, the
\* timeout error; once the promise was resolved, once() has detached from the
\* signal and nothing happens.
AbortConfirm(ls, res, name) ==
    IF name \in ls
    THEN [listeners |-> ls \ {name},
          result |-> Settle(res, name, RejectedTimeout)]
    ELSE [listeners |-> ls, result |-> res]

\* ---------------------------------------------------------------- actions
\* A send whose packet overtakes the packets handed to the transport before.
SendPacketFirst(req) ==
    /\ LET packet == createPacket(messageNumber, req[1], req[2], req[3])
       IN /\ listeners' = listeners \cup {messageNumber}
          /\ timers' = timers \cup {messageNumber}
          /\ calls' = calls @@ (messageNumber :> packet)
          /\ result' = result @@ (messageNumber :> PendingResult)
          /\ transportOut' = <<packet>> \o transportOut
    /\ messageNumber' = messageNumber + 1
    /\ UNCHANGED <<receiveBuffer, wire, answered, unsolicited, lastReceive,
                   codec>>

\* Camera.send(command, ...args) up to its await.
SendPacket(req) ==
    /\ LET packet == createPacket(messageNumber, req[1], req[2], req[3])
       IN /\ listeners' = listeners \cup {messageNumber}
          /\ timers' = timers \cup {messageNumber}
          /\ calls' = calls @@ (messageNumber :> packet)
          /\ result' = result @@ (messageNumber :> PendingResult)
          /\ transportOut' = Append(transportOut, packet)
    /\ messageNumber' = messageNumber + 1
    /\ UNCHANGED <<receiveBuffer, wire, answered, unsolicited, lastReceive,
                   codec>>

\* A caller that uses send directly, as the methods without options do.
Send(req) ==
    /\ Cardinality(DOMAIN calls) < MaxSends
    /\ SendPacket(req)
    /\ UNCHANGED api

\* The device writes a packet to the transport; `bad` is one whose checksum
\* byte was damaged on the line.
DeviceWrite(functionCode, subFunctionCode, messageID, payload, bad) ==
    /\ LET good == respond(functionCode, subFunctionCode, messageID, payload)
           at == 11 + Len(payload)
           pkt == IF bad THEN [good EXCEPT ![at] = ToUint8(good[at] + 1)]
                  ELSE good
       IN wire' = Append(wire, pkt)
    /\ UNCHANGED <<messageNumber, receiveBuffer, listeners, timers, calls,
                   result, transportOut, lastReceive, codec, api>>

\* The device answers the i-th packet it was sent, once, under that packet's
\* function, subfunction and message number (MockCamera.receive).
DeviceRespond(i, payload, bad) ==
    /\ i \in 1 .. Len(transportOut)
    /\ i \notin answered
    /\ answered' = answered \cup {i}
    /\ UNCHANGED unsolicited
    /\ payload \in PayloadsFor(transportOut[i][4], transportOut[i][5])
    /\ DeviceWrite(transportOut[i][4], transportOut[i][5], transportOut[i][6],
                   payload, bad)

\* The device writes a packet nobody asked for.
Unsolicited(messageID, payload, bad) ==
    /\ unsolicited < MaxUnsolicited
    /\ unsolicited' = unsolicited + 1
    /\ DeviceWrite(7, 6, messageID, payload, bad)
    /\ UNCHANGED answered

\* The transport emits 'data' with the next n bytes: Camera.receive runs.
Deliver(n) ==
    /\ n \in 1 .. Len(Flatten(wire))
    /\ LET chunk == SubSeq(Flatten(wire), 1, n)
           r == receive(receiveBuffer, chunk)
           e == IF r.emitted = <<>>
                THEN [listeners |-> listeners, result |-> result]
                ELSE EmitConfirm(listeners, result, r.emitted[1].messageID,
                                 r.emitted[1].response)
       IN /\ receiveBuffer' = r.buffer
          /\ listeners' = e.listeners
          /\ result' = e.result
          /\ wire' = DropBytes(wire, n)
          /\ lastReceive' = [chunk |-> chunk, before |-> receiveBuffer,
                             threw |-> r.threw, emitted |-> r.emitted]
    /\ UNCHANGED <<messageNumber, timers, calls, transportOut, answered,
                   unsolicited, codec, api>>

\* The AbortSignal.timeout(responseTimeout) made by the send registered
\* under k fires.
TimerFire(k) ==
    /\ k \in timers
    /\ timers' = timers \ {k}
    /\ LET e == AbortConfirm(listeners, result, k)
       IN /\ listeners' = e.listeners
          /\ result' = e.result
    /\ UNCHANGED <<messageNumber, receiveBuffer, calls, transportOut, wire,
                   answered, unsolicited, lastReceive, codec, api>>

\* ------------------------------------------------------ the named methods
\* The setters that send one function with the value of the option, the
\* getters, and the map each of them uses.
Setters ==
    [setITT |-> [options |-> ITT_MODES, function |-> FUNCTIONS.ITT_SET],
     setLUT |-> [options |-> LUT_MODES, function |-> FUNCTIONS.LUT_SET],
     setNUC |-> [options |-> NUC_MODES, function |-> FUNCTIONS.NUC_SET]]
Getters ==
    [getITT |-> [map |-> ITT_MAP, function |-> FUNCTIONS.ITT_GET],
     getLUT |-> [map |-> LUT_MAP, function |-> FUNCTIONS.LUT_GET],
     getNUC |-> [map |-> NUC_MAP, function |-> FUNCTIONS.NUC_GET]]

\* Options the callers pass: every key of the map and one that is none.
Options(options) == {options[i][1] : i \in 1 .. Len(options)} \cup {"fake"}

\* A named method may be called: the camera is open, and the caller awaits
\* the outcome of each call before it makes the next.
Callable ==
    /\ ~api.closed
    /\ api.count < MaxCalls
    /\ \A k \in DOMAIN result : result[k] # PendingResult

\* validate threw: nothing else of the method ran.
Throws(method, option, v) ==
    /\ api' = [api EXCEPT !.count = @ + 1,
                          !.thrown = [method |-> method, option |-> option,
                                      available |-> v.available]]
    /\ UNCHANGED <<messageNumber, receiveBuffer, listeners, timers, calls,
                   result, transportOut, wire, answered, unsolicited,
                   lastReceive, codec>>

\* The method went on to this.send(...): the send is filed under the method.
Sends(method, option, step, req) ==
    /\ SendPacket(req)
    /\ api' = [api EXCEPT !.count = @ + 1,
                          !.thrown = NoError,
                          !.op = @ @@ (messageNumber :>
                                     [method |-> method, option |-> option,
                                      step |-> step])]

\* setITT(mode), setLUT(mode), setNUC(mode).
SetMode(method, mode) ==
    /\ Callable
    /\ LET v == validate(mode, Setters[method].options)
           f == Setters[method].function
       IN IF v.ok THEN Sends(method, mode, "set", <<f[1], f[2], <<v.value>>>>)
          ELSE Throws(method, mode, v)

setITT(mode) == SetMode("setITT", mode)
setLUT(mode) == SetMode("setLUT", mode)
setNUC(mode) == SetMode("setNUC", mode)

\* setAGC(mode) up to its first await or its return.
setAGC(mode) ==
    /\ Callable
    /\ LET v == validate(mode, AGC_MODES)
       IN IF ~v.ok THEN Throws("setAGC", mode, v)
          ELSE IF mode = "off"
          THEN Sends("setAGC", mode, "off",
                     <<FUNCTIONS.AGC_OFF[1], FUNCTIONS.AGC_OFF[2], <<>>>>)
          ELSE Sends("setAGC", mode, "on",
                     <<FUNCTIONS.AGC_ON[1], FUNCTIONS.AGC_ON[2], <<>>>>)

\* The sends a method awaits before it goes on (AGC_ON in setAGC, NUC_GET in
\* the calibrations) that have settled and whose continuation has not run.
Resumable ==
    {k \in DOMAIN api.op :
        api.op[k].step \in {"on", "nuc"} /\ result[k] # PendingResult}

\* A setAGC that goes on to AGC_SET whether AGC_ON was confirmed or not.
ResumeSetAGCAlways(k) ==
    /\ k \in Resumable
    /\ api.op[k].step = "on"
    /\ SendPacket(<<FUNCTIONS.AGC_SET[1], FUNCTIONS.AGC_SET[2],
                    <<Get(AGC_MODES, api.op[k].option)>>>>)
    /\ api' = [api EXCEPT !.op = [@ EXCEPT ![k].step = "resumed"]
                                @@ (messageNumber :>
                                    [api.op[k] EXCEPT !.step = "set"])]

\* setAGC(mode) after its await: a rejection ends the method, a resolution
\* lets it send AGC_SET with the value of the mode.
ResumeSetAGC(k) ==
    /\ k \in Resumable
    /\ api.op[k].step = "on"
    /\ IF result[k].kind = "resolved"
       THEN /\ SendPacket(<<FUNCTIONS.AGC_SET[1], FUNCTIONS.AGC_SET[2],
                            <<Get(AGC_MODES, api.op[k].option)>>>>)
            /\ api' = [api EXCEPT !.op = [@ EXCEPT ![k].step = "resumed"]
                                        @@ (messageNumber :>
                                            [api.op[k] EXCEPT !.step = "set"])]
       ELSE /\ api' = [api EXCEPT !.op[k].step = "rejected"]
            /\ UNCHANGED <<messageNumber, receiveBuffer, listeners, timers,
                           calls, result, transportOut, wire, answered,
                           unsolicited, lastReceive, codec>>

\* getITT(), getLUT(), getNUC() up to their await.
GetMode(method) ==
    /\ Callable
    /\ LET f == Getters[method].function
       IN Sends(method, "", "get", <<f[1], f[2], <<>>>>)

getITT == GetMode("getITT")
getLUT == GetMode("getLUT")
getNUC == GetMode("getNUC")

\* What the getter that made send k returns once the send has resolved:
\* MAP[response.readUInt16LE(0)].
Returned(k) ==
    Lookup(Getters[api.op[k].method].map,
           ReadUInt16LE(result[k].value.bytes, 0))

\* run1PointCalibration() and run2PointCalibration() up to their await:
\* getNUC() sends NUC_GET.
Calibrations ==
    [run1PointCalibration |-> FUNCTIONS.CALIBRATE_1_POINT,
     run2PointCalibration |-> FUNCTIONS.CALIBRATE_2_POINT]

RunCalibration(method) ==
    /\ Callable
    /\ Sends(method, "", "nuc",
             <<FUNCTIONS.NUC_GET[1], FUNCTIONS.NUC_GET[2], <<>>>>)

run1PointCalibration == RunCalibration("run1PointCalibration")
run2PointCalibration == RunCalibration("run2PointCalibration")

\* A calibration that goes on to CALIBRATE whether getNUC answered or not.
ResumeCalibrationAlways(k) ==
    /\ k \in Resumable
    /\ api.op[k].step = "nuc"
    /\ LET f == Calibrations[api.op[k].method]
       IN SendPacket(<<f[1], f[2], <<0, 0>>>>)
    /\ api' = [api EXCEPT !.op = [@ EXCEPT ![k].step = "resumed"]
                                @@ (messageNumber :>
                                    [api.op[k] EXCEPT !.step = "calibrate"])]

\* The calibrations after their await: a rejection of getNUC ends the
\* method; otherwise nucMode is what getNUC returns, NUC_MAP[word], and
\* CALIBRATE is sent with the arguments nucMode and 0.
ResumeCalibration(k) ==
    /\ k \in Resumable
    /\ api.op[k].step = "nuc"
    /\ IF result[k].kind = "resolved"
       THEN LET nucMode == Lookup(NUC_MAP,
                                  ReadUInt16LE(result[k].value.bytes, 0))
                f == Calibrations[api.op[k].method]
            IN /\ SendPacket(<<f[1], f[2], <<NumberOf(nucMode), 0>>>>)
               /\ api' = [api EXCEPT
                             !.op = [@ EXCEPT ![k].step = "resumed"]
                                    @@ (messageNumber :>
                                        [api.op[k] EXCEPT !.step = "calibrate"])]
       ELSE /\ api' = [api EXCEPT !.op[k].step = "rejected"]
            /\ UNCHANGED <<messageNumber, receiveBuffer, listeners, timers,
                           calls, result, transportOut, wire, answered,
                           unsolicited, lastReceive, codec>>

\* Camera.close(): the transport is closed, and nothing else.
close ==
    /\ ~api.closed
    /\ api' = [api EXCEPT !.closed = TRUE]
    /\ UNCHANGED <<messageNumber, receiveBuffer, listeners, timers, calls,
                   result, transportOut, wire, answered, unsolicited,
                   lastReceive, codec>>

\* Words the device reports as the mode it is in.
DeviceWords == 0 .. 5

\* The device answers the i-th packet it was sent (MockCamera.receive): the
\* GET functions with one word, the others without payload.
DeviceAnswer(i, word) ==
    /\ i \in 1 .. Len(transportOut)
    /\ i \notin answered
    /\ answered' = answered \cup {i}
    /\ UNCHANGED unsolicited
    /\ LET f == <<transportOut[i][4], transportOut[i][5]>>
           isGet == f \in {FUNCTIONS.ITT_GET, FUNCTIONS.LUT_GET,
                           FUNCTIONS.NUC_GET}
       IN /\ isGet \/ word = 0
          /\ DeviceWrite(f[1], f[2], transportOut[i][6],
                         IF isGet THEN <<word, 0>> ELSE <<>>, FALSE)

\* Sizes of the chunks the transport cuts the device's writes into: a write
\* as it is, everything in flight at once, or a write cut after its header.
ChunkSizes ==
    IF wire = <<>> THEN {}
    ELSE {Len(Head(wire)), Len(Flatten(wire))}
         \cup (IF Len(Head(wire)) > 8 THEN {8} ELSE {})

Next ==
    \/ \E req \in Requests : Send(req)
    \/ \E i \in 1 .. MaxSends, payload \in Payloads, bad \in BOOLEAN :
          DeviceRespond(i, payload, bad)
    \/ \E n \in ChunkSizes : Deliver(n)
    \/ \E k \in timers : TimerFire(k)

Spec == Init /\ [][Next]_vars

\* ------------------------------------------------- the reassembler alone
\* The inbound stream cut into chunks of every size, with no request pending.
\* The device writes packets without and with a payload, and damaged ones of
\* the short kind.
StreamIds == {7}
StreamPayloads == {<<>>, <<4, 0>>}

NextStream ==
    \/ \E id \in StreamIds, payload \in StreamPayloads, bad \in BOOLEAN :
          /\ bad => payload = <<>>
          /\ Unsolicited(id, payload, bad)
    \/ \E n \in 1 .. Len(Flatten(wire)) : Deliver(n)

SpecStream == Init /\ [][NextStream]_vars

\* ------------------------------------------------------- the codec alone
\* createPacket on a few inputs, then parsePacket on the packet with one
\* byte replaced by any value (the byte's own value leaves the packet as is).
CodecNumbers == {0, 1, 255, 256}
CodecRequests == {<<4, 1, <<>>>>, <<7, 5, <<4>>>>, <<5, 13, <<258, 65535>>>>}

InitCodec ==
    /\ messageNumber = 1
    /\ receiveBuffer = <<>>
    /\ listeners = {}
    /\ timers = {}
    /\ calls = <<>>
    /\ result = <<>>
    /\ transportOut = <<>>
    /\ wire = <<>>
    /\ answered = {}
    /\ unsolicited = 0
    /\ lastReceive = NoReceive
    /\ api = IdleApi
    /\ \E n \in CodecNumbers, req \in CodecRequests :
          LET packet == createPacket(n, req[1], req[2], req[3])
          IN codec = [IdleCodec EXCEPT !.stage = "created",
                                       !.number = n,
                                       !.request = req,
                                       !.original = packet,
                                       !.packet = packet,
                                       !.dataSize = 2 * Len(req[3])]

ParseReplaced(at, value) ==
    /\ codec.stage = "created"
    /\ at \in 1 .. Len(codec.original)
    /\ LET packet == [codec.original EXCEPT ![at] = value]
       IN codec' = [codec EXCEPT !.stage = "parsed",
                                 !.packet = packet,
                                 !.at = at,
                                 !.parsed = parsePacket(packet, codec.dataSize)]
    /\ UNCHANGED <<messageNumber, receiveBuffer, listeners, timers, calls,
                   result, transportOut, wire, answered, unsolicited,
                   lastReceive, api>>

NextCodec ==
    /\ codec.stage = "created"
    /\ \E at \in 1 .. Len(codec.original), value \in Byte :
          ParseReplaced(at, value)

SpecCodec == InitCodec /\ [][NextCodec]_vars

\* ------------------------------------------------ fragmented responses
\* getNUC's request is sent and answered, and the transport cuts the
\* responses into chunks of every size.
SendFragmented ==
    /\ Cardinality(DOMAIN calls) < MaxFragmented
    /\ SendPacket(<<FUNCTIONS.NUC_GET[1], FUNCTIONS.NUC_GET[2], <<>>>>)
    /\ UNCHANGED api

NextFragments ==
    \/ SendFragmented
    \/ \E i \in 1 .. Len(transportOut), payload \in Payloads :
          DeviceRespond(i, payload, FALSE)
    \/ \E n \in 1 .. Len(Flatten(wire)) : Deliver(n)
    \/ \E k \in timers : TimerFire(k)

SpecFragments == Init /\ [][NextFragments]_vars

\* ------------------------------------------------ unmatched responses
\* toggleFreezeFrame() is called, and the device writes NUC_GET responses
\* under numbers that are or are not those of waiting sends.
UnmatchedIds == {0, 1, 2, 255}

NextUnmatched ==
    \/ Send(<<FUNCTIONS.FREEZE_FRAME[1], FUNCTIONS.FREEZE_FRAME[2], <<>>>>)
    \/ \E id \in UnmatchedIds : Unsolicited(id, <<4, 0>>, FALSE)
    \/ wire # <<>> /\ Deliver(Len(Head(wire)))
    \/ \E k \in timers : result[k] = PendingResult /\ TimerFire(k)

SpecUnmatched == Init /\ [][NextUnmatched]_vars

\* ------------------------------------------------- repeated responses
\* getNUC's request is sent, and the device may write a response to a
\* request it has answered already once more, with the same or another mode.
Duplicate(i, payload) ==
    /\ i \in answered
    /\ payload \in PayloadsFor(transportOut[i][4], transportOut[i][5])
    /\ unsolicited < MaxDuplicates
    /\ unsolicited' = unsolicited + 1
    /\ UNCHANGED answered
    /\ DeviceWrite(transportOut[i][4], transportOut[i][5], transportOut[i][6],
                   payload, FALSE)

NextDup ==
    \/ Send(<<FUNCTIONS.NUC_GET[1], FUNCTIONS.NUC_GET[2], <<>>>>)
    \/ \E i \in 1 .. Len(transportOut), payload \in Payloads :
          DeviceRespond(i, payload, FALSE)
    \/ \E i \in answered, payload \in Payloads : Duplicate(i, payload)
    \/ wire # <<>> /\ Deliver(Len(Head(wire)))
    \/ \E k \in timers : TimerFire(k)

SpecDup == Init /\ [][NextDup]_vars

\* ------------------------------------------------------ a burst of sends
\* A caller calls toggleFreezeFrame() in a loop without awaiting: every send
\* runs up to its await before any response or deadline is handled.
SendInBurst ==
    /\ Cardinality(DOMAIN calls) < MaxBurst
    /\ SendPacket(<<FUNCTIONS.FREEZE_FRAME[1], FUNCTIONS.FREEZE_FRAME[2], <<>>>>)
    /\ UNCHANGED api

NextBurst == SendInBurst

SpecBurst == Init /\ [][NextBurst]_vars

\* ----------------------------------------------------- the named methods
\* Callers use the setters and getters of modes and close the camera; the
\* device answers in whole writes. A continuation that can run does so
\* before the next event is handled. Deadlines fire while their send waits
\* (one that fires later changes nothing).
NextOps ==
    \/ \E k \in Resumable : ResumeSetAGC(k)
    \/ \E k \in Resumable : ResumeCalibration(k)
    \/ Resumable = {} /\ run1PointCalibration
    \/ Resumable = {} /\ run2PointCalibration
    \/ \E mode \in Options(ITT_MODES) : Resumable = {} /\ setITT(mode)
    \/ \E mode \in Options(LUT_MODES) : Resumable = {} /\ setLUT(mode)
    \/ \E mode \in Options(NUC_MODES) : Resumable = {} /\ setNUC(mode)
    \/ \E mode \in Options(AGC_MODES) : Resumable = {} /\ setAGC(mode)
    \/ Resumable = {} /\ getITT
    \/ Resumable = {} /\ getLUT
    \/ Resumable = {} /\ getNUC
    \/ Resumable = {} /\ close
    \/ \E i \in 1 .. Len(transportOut), word \in DeviceWords :
          Resumable = {} /\ DeviceAnswer(i, word)
    \/ Resumable = {} /\ ~api.closed /\ wire # <<>>
          /\ Deliver(Len(Head(wire)))
    \/ \E k \in timers :
          Resumable = {} /\ result[k] = PendingResult /\ TimerFire(k)

SpecOps == Init /\ [][NextOps]_vars

\* ============================================================= properties
\* A complete, valid packet: 14 + dataSize bytes long, dataSize being the
\* little-endian word at offset 8, whose checksum byte is the sum of the
\* bytes before it modulo 256.
IsPacket(b) ==
    /\ Len(b) >= 14
    /\ Len(b) = 14 + ReadUInt16LE(b, 8)
    /\ b[Len(b) - 3] = SumFirst(b, Len(b) - 4) % 256

PacketSeq(b) == b[6]

PacketPayload(b) ==
    IF Len(b) = 14 THEN Undefined ELSE Defined(SubSeq(b, 11, Len(b) - 4))

\* Two complete valid packets, one after the other.
IsTwoPackets(b) ==
    /\ Len(b) >= 28
    /\ 14 + ReadUInt16LE(b, 8) < Len(b)
    /\ IsPacket(SubSeq(b, 1, 14 + ReadUInt16LE(b, 8)))
    /\ IsPacket(SubSeq(b, 15 + ReadUInt16LE(b, 8), Len(b)))

FirstOf(b) == SubSeq(b, 1, 14 + ReadUInt16LE(b, 8))
SecondOf(b) == SubSeq(b, 15 + ReadUInt16LE(b, 8), Len(b))

\* A step in which the transport delivered a chunk, and the chunk.
DeliverStep == Len(Flatten(wire')) < Len(Flatten(wire))
DeliveredChunk ==
    SubSeq(Flatten(wire), 1, Len(Flatten(wire)) - Len(Flatten(wire')))

\* A step in which the deadline timer of send k fired.
TimerStep(k) == k \in timers /\ k \notin timers'

IsPending(k) == k \in DOMAIN result /\ result[k].kind = "pending"
IsResolved(k) == k \in DOMAIN result /\ result[k].kind = "resolved"
PendingSends == {k \in DOMAIN result : result[k].kind = "pending"}

\* C1: a valid response delivered in a chunk of its own (to an empty receive
\* buffer) while sends are outstanding resolves the send registered under the
\* response's sequence number with the response's payload, and leaves every
\* other send as it was, in whatever order the responses come.
C1_SequenceCorrelation ==
    [][\A m \in PendingSends :
          (/\ DeliverStep
           /\ receiveBuffer = <<>>
           /\ IsPacket(DeliveredChunk)
           /\ PacketSeq(DeliveredChunk) = m)
          => /\ result'[m] = Resolved(PacketPayload(DeliveredChunk))
             /\ \A k \in DOMAIN result \ {m} : result'[k] = result[k]]_vars

\* Two sends were outstanding together and the later one was answered first:
\* the latest receive resolved the earlier send, each with a response in a
\* chunk of its own.
C1_Witness ==
    /\ lastReceive.before = <<>>
    /\ IsPacket(lastReceive.chunk)
    /\ \E k1, k2 \in DOMAIN result :
          /\ k1 < k2
          /\ PacketSeq(lastReceive.chunk) = k1
          /\ result[k1] = Resolved(PacketPayload(lastReceive.chunk))
          /\ IsResolved(k2)
          /\ result[k2] # result[k1]

\* C2: a send that is pending when a valid response carrying the sequence
\* byte of the packet that send wrote arrives whole resolves with that
\* response's payload, however many sends came before it.
C2_ResolvesOwnWireSequence ==
    [][\A k \in PendingSends :
          (/\ DeliverStep
           /\ receiveBuffer = <<>>
           /\ IsPacket(DeliveredChunk)
           /\ PacketSeq(DeliveredChunk) = calls[k][6])
          => result'[k] = Resolved(PacketPayload(DeliveredChunk))]_vars

\* C3: the counter stays within 0..255 and every awaiter is registered under
\* the sequence byte written at header byte 5 of its packet.
C3_CounterWrapsAt256 ==
    /\ messageNumber \in 0 .. 255
    /\ \A k \in DOMAIN calls : calls[k][6] = k

\* C4: a chunk made of two complete valid packets, given to an empty receive
\* buffer, is decoded completely while that chunk is handled: the buffer is
\* empty afterwards and the pending sends registered under the two sequence
\* numbers are both resolved.
C4_Coalescing ==
    [][(/\ DeliverStep
        /\ receiveBuffer = <<>>
        /\ IsTwoPackets(DeliveredChunk))
       => /\ receiveBuffer' = <<>>
          /\ \A k \in PendingSends :
                k \in {PacketSeq(FirstOf(DeliveredChunk)),
                       PacketSeq(SecondOf(DeliveredChunk))}
                => result'[k].kind = "resolved"]_vars

\* The inbound bytes not yet consumed, and the length its first packet
\* declares.
Stream == receiveBuffer \o Flatten(wire)
HeadLen == 14 + ReadUInt16LE(Stream, 8)

\* The receive buffer holds a proper prefix (possibly none) of a complete
\* valid packet, the rest of which is still to be delivered.
InFragmentedPacket ==
    /\ Len(Stream) >= 14
    /\ HeadLen <= Len(Stream)
    /\ IsPacket(SubSeq(Stream, 1, HeadLen))
    /\ Len(receiveBuffer) < HeadLen

\* C5: however a valid packet is cut into chunks, the chunks before its last
\* byte decode nothing and are only appended to the buffer, and the chunk
\* that brings its last byte yields exactly the packet a single chunk yields
\* (same sequence number, same payload) and leaves the buffer empty.
C5_FragmentationInvariance ==
    [][(DeliverStep /\ InFragmentedPacket)
       => LET whole == SubSeq(Stream, 1, HeadLen)
              got == Len(receiveBuffer) + Len(DeliveredChunk)
          IN /\ got < HeadLen
                => /\ lastReceive'.emitted = <<>>
                   /\ ~lastReceive'.threw
                   /\ receiveBuffer' = receiveBuffer \o DeliveredChunk
             /\ got = HeadLen
                => /\ lastReceive'.emitted = receive(<<>>, whole).emitted
                   /\ lastReceive'.emitted =
                         <<[messageID |-> PacketSeq(whole),
                            response |-> PacketPayload(whole)]>>
                   /\ receiveBuffer' = <<>>]_vars

\* A packet with a payload arrived in pieces, the last of them a few bytes
\* long, and was decoded when that piece came.
C5_Witness ==
    /\ lastReceive.before # <<>>
    /\ Len(lastReceive.chunk) < 8
    /\ IsPacket(lastReceive.before \o lastReceive.chunk)
    /\ Len(lastReceive.before \o lastReceive.chunk) > 14
    /\ lastReceive.emitted # <<>>
    /\ receiveBuffer = <<>>

\* C6: when the deadline of a send expires before a response with its
\* sequence number was decoded, the send fails with the timeout error and
\* its listener is removed; no send that timed out has a listener left.
C6_Timeout ==
    [][/\ \A k \in PendingSends :
             TimerStep(k) => /\ result'[k] = RejectedTimeout
                             /\ k \notin listeners'
       /\ \A k \in DOMAIN result :
             result[k].kind = "timeout" => k \notin listeners]_vars

\* A send timed out, its listener is gone, and a later send was made.
C6_Witness ==
    \E k, j \in DOMAIN result :
       /\ k < j
       /\ result[k] = RejectedTimeout
       /\ k \notin listeners
       /\ k \notin timers
       /\ j \in listeners

\* C7: a valid response decoded after the send registered under its sequence
\* number has timed out changes the outcome of no send.
C7_LateResponse ==
    [][(/\ DeliverStep
        /\ IsPacket(receiveBuffer \o DeliveredChunk)
        /\ PacketSeq(receiveBuffer \o DeliveredChunk) \in DOMAIN result
        /\ result[PacketSeq(receiveBuffer \o DeliveredChunk)].kind = "timeout")
       => result' = result]_vars

\* The latest receive decoded the response of a send that had timed out,
\* while another send was waiting.
C7_Witness ==
    /\ lastReceive.emitted # <<>>
    /\ lastReceive.emitted[1].messageID \in DOMAIN result
    /\ result[lastReceive.emitted[1].messageID] = RejectedTimeout
    /\ PendingSends # {}

\* C8: when the deadline of one pending send expires, every other send keeps
\* its outcome, its listener and its own timer.
C8_TimeoutIsolation ==
    [][\A k \in PendingSends :
          TimerStep(k)
          => \A j \in DOMAIN result \ {k} :
                /\ result'[j] = result[j]
                /\ (j \in listeners') = (j \in listeners)
                /\ (j \in timers') = (j \in timers)]_vars

\* A send timed out while an earlier send was pending; the earlier send is
\* still waiting, with its listener and its timer.
C8_Witness ==
    \E k, j \in DOMAIN result :
       /\ j < k
       /\ result[k] = RejectedTimeout
       /\ IsPending(j)
       /\ j \in listeners
       /\ j \in timers

\* C9: a complete packet whose checksum byte does not match is dropped
\* inside receive: no exception leaves the handler and no send other than the
\* one the packet addresses changes its outcome.
C9_ChecksumHandledLocally ==
    [][DeliverStep
       => /\ ~lastReceive'.threw
          /\ (/\ Len(receiveBuffer \o DeliveredChunk) >= 14
              /\ ~IsPacket(receiveBuffer \o DeliveredChunk))
             => \A k \in DOMAIN result :
                   \/ result'[k] = result[k]
                   \/ k = PacketSeq(receiveBuffer \o DeliveredChunk)]_vars

\* C10: parsePacket, given a packet of createPacket with one byte replaced
\* and the original data size, succeeds exactly when the checksum byte equals
\* the sum of the first 10 + dataSize bytes modulo 256, and fails whenever a
\* byte before the checksum byte was replaced by a different value.
C10_CorruptionDetected ==
    codec.stage = "parsed"
    => LET at == 11 + codec.dataSize
       IN /\ codec.parsed.ok
             <=> codec.packet[at] = SumFirst(codec.packet, at - 1) % 256
          /\ (codec.at < at /\ codec.packet # codec.original)
             => ~codec.parsed.ok

\* A payload byte of a packet with arguments was replaced and parsePacket
\* refused the packet.
C10_Witness ==
    /\ codec.stage = "parsed"
    /\ codec.dataSize > 0
    /\ codec.at > 10
    /\ codec.at < 11 + codec.dataSize
    /\ codec.packet # codec.original
    /\ ~codec.parsed.ok

\* The little-endian bytes of a list of 16-bit words, byte by byte.
WordBytes(data) ==
    [i \in 1 .. 2 * Len(data) |->
        IF i % 2 = 1 THEN data[(i + 1) \div 2] % 256
        ELSE data[i \div 2] \div 256]

\* C11: parsePacket, given a packet of createPacket as it is and twice the
\* number of argument words, succeeds and returns the sequence number
\* (0..255) and the little-endian bytes of the words, or no payload when
\* there are no words.
C11_RoundTrip ==
    (/\ codec.stage = "parsed"
     /\ codec.packet = codec.original
     /\ codec.number \in 0 .. 255)
    => /\ codec.dataSize = 2 * Len(codec.request[3])
       /\ codec.parsed.ok
       /\ codec.parsed.messageID = codec.number
       /\ codec.parsed.response =
             IF codec.request[3] = <<>> THEN Undefined
             ELSE Defined(WordBytes(codec.request[3]))

\* The packet of sequence number 255 with two argument words, one of them
\* above 255, went through parsePacket unchanged.
C11_Witness ==
    /\ codec.stage = "parsed"
    /\ codec.packet = codec.original
    /\ codec.number = 255
    /\ Len(codec.request[3]) = 2
    /\ codec.parsed.ok

\* The packet the format prescribes for a sequence number, a command, a
\* subcommand and a list of words.
ReferencePacket(seq, command, subCommand, data) ==
    LET body == <<3, 0, 1, command, subCommand, seq, 255, 255>>
                \o <<(2 * Len(data)) % 256, (2 * Len(data)) \div 256>>
                \o WordBytes(data)
    IN body \o <<SumFirst(body, Len(body)) % 256, 2, 0, 0>>

\* C12: createPacket returns exactly the reference packet, 14 + 2 * count
\* bytes long; with no arguments it is 14 bytes with a zero length field.
C12_ReferencePacket ==
    (codec.stage # "idle" /\ codec.number \in 0 .. 255)
    => /\ codec.original = ReferencePacket(codec.number, codec.request[1],
                                           codec.request[2], codec.request[3])
       /\ Len(codec.original) = 14 + 2 * Len(codec.request[3])
       /\ codec.request[3] = <<>>
          => (Len(codec.original) = 14 /\ codec.original[9] = 0
              /\ codec.original[10] = 0)

\* createPacket was given two argument words, and was given none.
C12_Witness ==
    /\ codec.stage = "created"
    /\ Len(codec.request[3]) = 2
    /\ Len(codec.original) = 18

\* The option names each setter accepts, in the order its error lists them.
ValidNames ==
    [setAGC |-> <<"off", "full", "midsize", "center", "horizon">>,
     setITT |-> <<"linear", "inverse", "s-curve", "two-cycle">>,
     setNUC |-> <<"cold", "mid", "warm", "hot">>,
     setLUT |-> <<"black-and-white", "color", "sepia">>]

IsName(method, option) ==
    \E i \in 1 .. Len(ValidNames[method]) : ValidNames[method][i] = option

\* C13: setAGC, setITT, setNUC and setLUT called with a name that is not a
\* key of their map fail with an error listing every valid name, and do no
\* I/O: no send is ever filed under such a name, and the failing call leaves
\* the transport, the counter and the awaiters as they were.
C13_OptionValidation ==
    [][/\ \A k \in DOMAIN api'.op \ DOMAIN api.op :
             api'.op[k].method \in DOMAIN ValidNames
             => IsName(api'.op[k].method, api'.op[k].option)
       /\ (api'.count = api.count + 1 /\ api'.thrown # NoError)
          => /\ api'.thrown.method \in DOMAIN ValidNames
             /\ ~IsName(api'.thrown.method, api'.thrown.option)
             /\ api'.thrown.available = ValidNames[api'.thrown.method]
             /\ UNCHANGED <<messageNumber, transportOut, listeners, timers,
                            calls, result, api.op>>]_vars

\* setAGC('fake') failed, listing the five modes, and nothing was sent.
C13_Witness ==
    /\ api.thrown.method = "setAGC"
    /\ api.thrown.option = "fake"
    /\ Len(api.thrown.available) = 5
    /\ transportOut = <<>>
    /\ listeners = {}

\* C14: a send settles at most once. Once its promise is resolved or
\* rejected it stays as it is and has no listener left, whatever comes
\* later: a second response under its number, or its deadline firing.
C14_SettlesOnce ==
    [][\A k \in DOMAIN result :
          result[k] # PendingResult
          => /\ result'[k] = result[k]
             /\ k \notin listeners
             /\ k \notin listeners']_vars

\* A send was resolved, its deadline fired afterwards, and the latest chunk
\* held a second response under its number with another payload.
C14_Witness ==
    \E k \in DOMAIN result :
       /\ result[k].kind = "resolved"
       /\ k \notin timers
       /\ unsolicited > 0
       /\ lastReceive.emitted # <<>>
       /\ lastReceive.emitted[1].messageID = k
       /\ lastReceive.emitted[1].response # result[k].value

\* C15: no two pending sends have packets with the same sequence byte on
\* the wire.
C15_OnePendingPerWireNumber ==
    \A j, k \in PendingSends : j # k => PacketSeq(calls[j]) # PacketSeq(calls[k])

\* C16: the transport was handed the packets of the sends in the order of
\* the calls, each within its call (no send is registered whose packet was
\* not handed over), and each packet carries the sequence byte that follows
\* the one before it, 0 following 255.
C16_DispatchOrder ==
    LET n == Len(transportOut)
        first == messageNumber - n
    IN /\ DOMAIN calls = first .. messageNumber - 1
       /\ \A i \in 1 .. n : transportOut[i] = calls[first + i - 1]
       /\ \A i \in 1 .. n - 1 :
             PacketSeq(transportOut[i + 1])
                = (PacketSeq(transportOut[i]) + 1) % 256

\* Two sends were made, the first with sequence byte 255.
C16_Witness ==
    /\ Len(transportOut) = 2
    /\ PacketSeq(transportOut[1]) = 255
    /\ PacketSeq(transportOut[2]) = 0
    /\ transportOut[1] # transportOut[2]

\* C17: once Camera.close was called no send is pending: close rejected
\* the sends that were waiting, so none is left to end by its deadline.
C17_CloseRejectsPending ==
    api.closed => PendingSends = {}

\* The setters of the three modes with the function each sends and the
\* getter that reads the mode back. The names of ValidNames stand in the
\* order of their wire values 1, 2, 3, ...
ModeSetters ==
    [setITT |-> [function |-> <<5, 4>>, getter |-> "getITT"],
     setLUT |-> [function |-> <<5, 1>>, getter |-> "getLUT"],
     setNUC |-> [function |-> <<7, 5>>, getter |-> "getNUC"]]

WireValue(setter, name) ==
    CHOOSE i \in 1 .. Len(ValidNames[setter]) : ValidNames[setter][i] = name

\* C18: the packet of setITT, setLUT or setNUC with a name of its map is the
\* packet of its *_SET function with the one word that is the wire value of
\* the name, and the getter resolved by a response carrying the wire value
\* of a name returns that name.
C18_ModeRoundTrip ==
    \A k \in DOMAIN api.op :
       \A setter \in DOMAIN ModeSetters :
          /\ api.op[k].method = setter
             => calls[k] = ReferencePacket(
                               k % 256,
                               ModeSetters[setter].function[1],
                               ModeSetters[setter].function[2],
                               <<WireValue(setter, api.op[k].option)>>)
          /\ (/\ api.op[k].method = ModeSetters[setter].getter
              /\ result[k].kind = "resolved")
             => \A i \in 1 .. Len(ValidNames[setter]) :
                   result[k].value = Defined(<<i, 0>>)
                   => Returned(k) = Name(ValidNames[setter][i])

\* getNUC() was resolved by a response carrying the word 4, the wire value
\* of 'hot', and returns 'hot'.
C18_Witness ==
    \E k \in DOMAIN api.op :
       /\ api.op[k].method = "getNUC"
       /\ result[k] = Resolved(Defined(<<4, 0>>))
       /\ Returned(k) = Name("hot")

\* C19: a getter never returns undefined: whatever word the response that
\* resolved its send carries, it returns a name or an explicit unknown.
C19_UnmappedIsExplicit ==
    \A k \in DOMAIN api.op :
       (api.op[k].step = "get" /\ result[k].kind = "resolved")
       => Returned(k) # JsUndefined

\* C20: between two calls of receive the receive buffer does not start with
\* a complete packet: it holds fewer than 14 bytes, or fewer than 14 plus the
\* payload length its first packet declares.
C20_BufferDrained ==
    ~(/\ Len(receiveBuffer) >= 14
      /\ Len(receiveBuffer) >= 14 + ReadUInt16LE(receiveBuffer, 8))

\* The buffer receive works on in a step that delivers a chunk, and whether
\* it is short of a complete packet.
Joined == receiveBuffer \o DeliveredChunk
Partial(b) == Len(b) < 14 \/ Len(b) < 14 + ReadUInt16LE(b, 8)

\* C21: a chunk that leaves the buffer short of 14 bytes, or short of the
\* length its first packet declares, is appended to the buffer and nothing
\* else happens: no packet is decoded, no event emitted, no send settled and
\* no listener removed.
C21_PartialPacket ==
    [][(DeliverStep /\ Partial(Joined))
       => /\ receiveBuffer' = Joined
          /\ lastReceive'.emitted = <<>>
          /\ ~lastReceive'.threw
          /\ result' = result
          /\ listeners' = listeners]_vars

\* While a send was pending, the latest chunk brought the buffer to 14 or 15
\* bytes of a packet that declares a payload of 2 bytes, and the send of
\* that packet's number is still pending.
C21_Witness ==
    LET b == lastReceive.before \o lastReceive.chunk
    IN /\ Len(b) \in {14, 15}
       /\ ReadUInt16LE(b, 8) = 2
       /\ receiveBuffer = b
       /\ \E k \in PendingSends : k \in listeners /\ b[6] = k

\* b with zero or more whole packets of 14 + dataSize bytes taken off its
\* front is rest.
RECURSIVE WholePacketsRemoved(_, _)
WholePacketsRemoved(b, rest) ==
    \/ rest = b
    \/ /\ ~Partial(b)
       /\ WholePacketsRemoved(SubSeq(b, 15 + ReadUInt16LE(b, 8), Len(b)), rest)

\* C22: after receive(chunk) the buffer is the previous buffer followed by
\* the chunk, with zero or more whole packets of 14 + dataSize bytes removed
\* from the front and no other byte dropped, repeated or moved, also when
\* the packet removed fails its checksum.
C22_BufferConservation ==
    [][DeliverStep => WholePacketsRemoved(Joined, receiveBuffer')]_vars

\* The latest receive took a packet with a damaged checksum off the buffer
\* and the bytes that followed it are what the buffer holds.
C22_Witness ==
    LET b == lastReceive.before \o lastReceive.chunk
    IN /\ lastReceive.threw
       /\ lastReceive.before # <<>>
       /\ Len(b) > 14
       /\ receiveBuffer = SubSeq(b, 15, Len(b))

\* The packets handed to the transport in a step, and the functions of the
\* calibrations.
HandedOver == SubSeq(transportOut', Len(transportOut) + 1, Len(transportOut'))
CalibrateFunctions ==
    [run1PointCalibration |-> <<7, 1>>, run2PointCalibration |-> <<7, 2>>]
IsCalibrate(b) == <<b[4], b[5]>> \in {<<7, 1>>, <<7, 2>>}

\* C23: a calibration first sends NUC_GET, and a CALIBRATE packet is handed
\* to the transport only in the step in which the calibration goes on after
\* its NUC_GET was resolved by a response, as the one packet of that step;
\* a NUC_GET that timed out is never followed by CALIBRATE.
C23_CalibrationOrdering ==
    [][/\ \A k \in DOMAIN api'.op \ DOMAIN api.op :
             api'.op[k].step = "nuc"
             => HandedOver = <<ReferencePacket(k % 256, 7, 6, <<>>)>>
       /\ (\E i \in 1 .. Len(HandedOver) : IsCalibrate(HandedOver[i]))
          => \E j \in DOMAIN api.op :
                /\ api.op[j].step = "nuc"
                /\ api'.op[j].step = "resumed"
                /\ result[j].kind = "resolved"
                /\ SubSeq(calls[j], 4, 5) = <<7, 6>>
                /\ Len(HandedOver) = 1
                /\ <<HandedOver[1][4], HandedOver[1][5]>>
                      = CalibrateFunctions[api.op[j].method]
       /\ \A j \in DOMAIN api.op :
             (api.op[j].step = "nuc" /\ result[j].kind = "timeout")
             => HandedOver = <<>>]_vars

\* run1PointCalibration() sent NUC_GET, was answered, and then sent
\* CALIBRATE_1_POINT.
C23_Witness ==
    /\ Len(transportOut) = 2
    /\ SubSeq(transportOut[1], 4, 5) = <<7, 6>>
    /\ SubSeq(transportOut[2], 4, 5) = <<7, 1>>
    /\ \E j \in DOMAIN api.op :
          /\ api.op[j].method = "run1PointCalibration"
          /\ api.op[j].step = "resumed"
          /\ result[j].kind = "resolved"

\* C24: the packet of a calibration is the CALIBRATE packet with two words:
\* the wire value, 1..4, that the response to its NUC_GET reported, and 0.
C24_CalibrationArguments ==
    \A k \in DOMAIN api.op :
       (/\ api.op[k].step = "calibrate"
        /\ ReadUInt16LE(result[k - 1].value.bytes, 0) \in 1 .. 4)
       => calls[k] = ReferencePacket(
                         k % 256,
                         CalibrateFunctions[api.op[k].method][1],
                         CalibrateFunctions[api.op[k].method][2],
                         <<ReadUInt16LE(result[k - 1].value.bytes, 0), 0>>)

\* The wire values of the AGC modes that are sent with AGC_SET.
AgcWireValue == [full |-> 0, midsize |-> 1, center |-> 2, horizon |-> 3]

\* C25: setAGC('off') sends the one packet AGC_OFF (1/0) without arguments;
\* setAGC of another valid mode sends AGC_ON (1/1) first, and AGC_SET (1/3)
\* with the one word that is the mode's wire value is handed to the
\* transport only in the step in which setAGC goes on after AGC_ON was
\* resolved by its response; after an AGC_ON that timed out nothing is sent.
C25_SetAGCProtocol ==
    [][/\ \A k \in DOMAIN api'.op \ DOMAIN api.op :
             api'.op[k].method = "setAGC"
             => /\ api'.op[k].option = "off"
                   => /\ api'.op[k].step = "off"
                      /\ HandedOver = <<ReferencePacket(k % 256, 1, 0, <<>>)>>
                /\ (api'.op[k].option # "off" /\ api'.op[k].step # "set")
                   => /\ api'.op[k].step = "on"
                      /\ HandedOver = <<ReferencePacket(k % 256, 1, 1, <<>>)>>
                /\ api'.op[k].step = "set"
                   => /\ api'.op[k].option \in DOMAIN AgcWireValue
                      /\ HandedOver = <<ReferencePacket(
                                          k % 256, 1, 3,
                                          <<AgcWireValue[api'.op[k].option]>>)>>
                      /\ \E j \in DOMAIN api.op :
                            /\ api.op[j] = [method |-> "setAGC",
                                            option |-> api'.op[k].option,
                                            step |-> "on"]
                            /\ api'.op[j].step = "resumed"
                            /\ result[j].kind = "resolved"
       /\ \A j \in DOMAIN api.op :
             (api.op[j].step \in {"off", "set"} /\ api.op[j].method = "setAGC")
             => api'.op[j] = api.op[j]
       /\ \A j \in DOMAIN api.op :
             (api.op[j].step = "on" /\ result[j].kind = "timeout")
             => HandedOver = <<>>]_vars

\* setAGC('horizon') sent AGC_ON, was answered, and then sent AGC_SET with
\* the word 3.
C25_Witness ==
    /\ Len(transportOut) = 2
    /\ SubSeq(transportOut[1], 4, 5) = <<1, 1>>
    /\ SubSeq(transportOut[2], 4, 5) = <<1, 3>>
    /\ SubSeq(transportOut[2], 9, 12) = <<2, 0, 3, 0>>
    /\ \E j \in DOMAIN api.op :
          api.op[j] = [method |-> "setAGC", option |-> "horizon",
                       step |-> "resumed"]

\* C26: a valid packet whose sequence number no listener is registered
\* under is taken off the buffer and changes no send, no listener and not
\* the counter; one whose number a listener is registered under resolves
\* that send with its payload and no other, whatever its command bytes are.
C26_UnmatchedIgnored ==
    [][(DeliverStep /\ IsPacket(Joined))
       => /\ receiveBuffer' = <<>>
          /\ messageNumber' = messageNumber
          /\ IF PacketSeq(Joined) \in listeners
             THEN /\ result' = [result EXCEPT ![PacketSeq(Joined)] =
                                   Resolved(PacketPayload(Joined))]
                  /\ listeners' = listeners \ {PacketSeq(Joined)}
             ELSE /\ result' = result
                  /\ listeners' = listeners]_vars

\* While one send waited, the latest chunk was a valid packet under a number
\* nobody waits for; the other send was resolved before by a packet whose
\* command bytes are not those of its request.
C26_Witness ==
    /\ IsPacket(lastReceive.chunk)
    /\ lastReceive.before = <<>>
    /\ lastReceive.emitted # <<>>
    /\ lastReceive.emitted[1].messageID \notin DOMAIN result
    /\ receiveBuffer = <<>>
    /\ \E j, k \in DOMAIN result :
          /\ result[j] = Resolved(Defined(<<4, 0>>))
          /\ SubSeq(calls[j], 4, 5) = <<4, 1>>
          /\ result[k] = PendingResult
          /\ k \in listeners

====
